---- MODULE Spec2Model ----
(***************************************************************************)
(* Model of src/src/App.tsx: the React component App of the Gemini Brand   *)
(* Mention Checker.  The state is the component's five useState cells, the *)
(* requests handed to fetch that handleSubmit is still awaiting, and what  *)
(* the last click on "Download CSV" produced.  Text is a sequence of       *)
(* one-character strings; an optional JavaScript value is <<>> (undefined, *)
(* null) or the one-element sequence <<v>>.                                *)
(***************************************************************************)
EXTENDS Integers, Sequences, FiniteSets, TLC

VARIABLES
    prompt,     \* useState('')      App.tsx:16
    brand,      \* useState('')      App.tsx:17
    results,    \* useState([])      App.tsx:18
    loading,    \* useState(false)   App.tsx:19
    error,      \* useState(null)    App.tsx:20
    inflight,   \* handleSubmit calls suspended at the awaits of lines 34, 42
    exported,   \* outcome of the last downloadCSV call
    calls,      \* number of fetch calls issued (line 34)
    accepted,   \* number of handleSubmit calls that passed line 25
    dropped,    \* submit attempts made on the disabled button (line 139)
    last        \* the handler or event of the latest step

vars == <<prompt, brand, results, loading, error, inflight, exported,
          calls, accepted, dropped, last>>

-----------------------------------------------------------------------------
(* Bounds of the model *)

MaxCalls == 2
MaxDropped == 1

-----------------------------------------------------------------------------
(* JavaScript values *)

Undefined == <<>>
Null == <<>>
Some(v) == <<v>>

\* if (x): undefined, null and the empty string are falsy
Truthy(x) == x # <<>> /\ x[1] # ""

\* x || y
JsOr(x, y) == IF Truthy(x) THEN x ELSE y

ValidationMsg == "Please fill in both prompt and brand name"
FallbackMsg == "API Error: Service temporarily unavailable"
ConnectMsg == "Failed to connect to backend. Please check if the server is running."
ApiErrorSentinel == "API_ERROR"

-----------------------------------------------------------------------------
(* Text *)

EmptyText == <<>>

IsWhitespace(c) == c \in {" ", "\t", "\n"}

RECURSIVE TrimStart(_)
TrimStart(s) ==
    IF s = <<>> THEN <<>>
    ELSE IF IsWhitespace(Head(s)) THEN TrimStart(Tail(s))
    ELSE s

RECURSIVE TrimEnd(_)
TrimEnd(s) ==
    IF s = <<>> THEN <<>>
    ELSE IF IsWhitespace(s[Len(s)]) THEN TrimEnd(SubSeq(s, 1, Len(s) - 1))
    ELSE s

\* String.prototype.trim
Trim(s) == TrimEnd(TrimStart(s))

\* the texts a user types into the prompt textarea
PromptTexts ==
    { <<>>,
      <<" ">>,
      <<" ", "a">>,
      <<"b">> }

\* the texts a user types into the brand input
BrandTexts ==
    { <<>>,
      <<" ">>,
      <<"A", "\"", " ">> }

-----------------------------------------------------------------------------
(* The backend: what the awaits of lines 34 and 42 can deliver *)

\* a parsed JSON object; every field is optional
Body(p, b, m, pos, raw, err) ==
    [prompt |-> p, brand |-> b, mentioned |-> m, position |-> pos,
     raw |-> raw, error |-> err]

EmptyBody == Body(Undefined, Undefined, Undefined, Undefined, Undefined, Undefined)

Object(data) == [kind |-> "object", data |-> data]

\* fetch rejects (line 34), response.json() rejects (line 42), or the body is
\* the JSON value null, on which data.error raises a TypeError (line 44)
Failure(kind) == [kind |-> kind, data |-> EmptyBody]

\* the replies the backend gives to the request body req
Replies(req) ==
    { Failure("reject"), Failure("badjson"), Failure("null"),
      \* the inputs echoed, brand mentioned
      Object(Body(Some(req.prompt), Some(req.brand), Some(TRUE), Some(3),
                  Some("Acme is best"), Undefined)),
      \* the inputs echoed after normalisation, brand not mentioned, no raw
      Object(Body(Some(Trim(req.prompt)), Some(Trim(req.brand)), Some(FALSE),
                  Some(-1), Undefined, Undefined)),
      \* upstream generation failed, no error field
      Object(Body(Some(req.prompt), Some(req.brand), Some(FALSE), Some(0),
                  Some(ApiErrorSentinel), Undefined)),
      \* upstream generation failed, error field present but empty
      Object(Body(Some(req.prompt), Some(req.brand), Some(FALSE), Some(0),
                  Some(ApiErrorSentinel), Some(""))),
      \* an error-only response
      Object(Body(Undefined, Undefined, Undefined, Undefined, Undefined,
                  Some("rate limited"))),
      \* both an error field and the sentinel
      Object(Body(Some(req.prompt), Some(req.brand), Some(FALSE), Some(0),
                  Some(ApiErrorSentinel), Some("upstream failed"))),
      \* the empty object {}
      Object(EmptyBody) }

-----------------------------------------------------------------------------
(* handleSubmit, lines 22-77 *)

\* mutant: the inputs are never disabled
InputDisabled_never == FALSE

\* disabled={loading} on the textarea and the input
InputDisabled == loading

\* mutant: the submit button is never disabled
SubmitDisabled_never == FALSE

\* disabled={loading} on the submit button
SubmitDisabled == loading

\* mutant: the texts are tested without trim
Invalid_untrimmed(p, b) == p = EmptyText \/ b = EmptyText

\* !prompt.trim() || !brand.trim()
Invalid(p, b) == Trim(p) = EmptyText \/ Trim(b) = EmptyText

\* mutant: the payload is trimmed before it is sent
RequestBody_trimmed(p, b) == [prompt |-> Trim(p), brand |-> Trim(b)]

\* JSON.stringify({ prompt, brand })
RequestBody(p, b) == [prompt |-> p, brand |-> b]

\* mutant: response.json() is awaited outside the try block
Throws_fetchOnly(reply) == reply.kind = "reject"

\* the await of line 34 or 42 rejects, or line 44 raises: control goes to catch
Throws(reply) == reply.kind \in {"reject", "badjson", "null"}

\* mutant: raw is inspected before the error field
HasError_unlessSentinel(data) ==
    Truthy(data.error) /\ data.raw # Some(ApiErrorSentinel)

\* mutant: the early return of lines 44-48 is missing
HasError_never(data) == FALSE

\* if (data.error)
HasError(data) == Truthy(data.error)

\* mutant: the record takes prompt and brand from the component's state
NewResult_fromDraft(data) ==
    [prompt |-> Some(prompt),
     brand |-> Some(brand),
     mentioned |-> data.mentioned,
     position |-> data.position,
     raw |-> data.raw,
     error |-> JsOr(data.error,
                    IF data.raw = Some(ApiErrorSentinel)
                    THEN Some(FallbackMsg) ELSE Undefined)]

\* mutant: the record's error does not test raw
NewResult_alwaysError(data) ==
    [prompt |-> data.prompt,
     brand |-> data.brand,
     mentioned |-> data.mentioned,
     position |-> data.position,
     raw |-> data.raw,
     error |-> JsOr(data.error, Some(FallbackMsg))]

\* the object literal of lines 53-60
NewResult(data) ==
    [prompt |-> data.prompt,
     brand |-> data.brand,
     mentioned |-> data.mentioned,
     position |-> data.position,
     raw |-> data.raw,
     error |-> JsOr(data.error,
                    IF data.raw = Some(ApiErrorSentinel)
                    THEN Some(FallbackMsg) ELSE Undefined)]

\* mutant: the new record is put in front, [r, ...prev]
AppendResult_front(prev, r) == <<r>> \o prev

\* setResults((prev) => [...prev, r])
AppendResult(prev, r) == Append(prev, r)

\* mutant: the banner is set after every appended record
ShowsError_always(data) == TRUE

\* mutant: the banner does not test raw
ShowsError_fieldOnly(data) == Truthy(data.error)

\* if (data.error || data.raw === 'API_ERROR')
ShowsError(data) == Truthy(data.error) \/ data.raw = Some(ApiErrorSentinel)

\* data.error || 'API Error: Service temporarily unavailable'
ErrorShown(data) == JsOr(data.error, Some(FallbackMsg))

\* mutant: setBrand('') is missing
ClearedForm_promptOnly(p, b) == [prompt |-> EmptyText, brand |-> b]

\* setPrompt(''); setBrand('')
ClearedForm(p, b) == [prompt |-> EmptyText, brand |-> EmptyText]

RemoveAt(s, i) == SubSeq(s, 1, i - 1) \o SubSeq(s, i + 1, Len(s))

Init ==
    /\ prompt = EmptyText
    /\ brand = EmptyText
    /\ results = <<>>
    /\ loading = FALSE
    /\ error = Null
    /\ inflight = <<>>
    /\ exported = <<>>
    /\ calls = 0
    /\ accepted = 0
    /\ dropped = 0
    /\ last = "init"

\* mutant: typing in the prompt also calls setError(null)
UpdatePrompt_clearsError(t) ==
    /\ ~InputDisabled
    /\ prompt' = t
    /\ error' = Null
    /\ last' = "updatePrompt"
    /\ UNCHANGED <<brand, results, loading, inflight, exported,
                   calls, accepted, dropped>>

\* onChange={(e) => setPrompt(e.target.value)}
UpdatePrompt(t) ==
    /\ ~InputDisabled
    /\ prompt' = t
    /\ last' = "updatePrompt"
    /\ UNCHANGED <<brand, results, loading, error, inflight, exported,
                   calls, accepted, dropped>>

\* onChange={(e) => setBrand(e.target.value)}
UpdateBrand(t) ==
    /\ ~InputDisabled
    /\ brand' = t
    /\ last' = "updateBrand"
    /\ UNCHANGED <<prompt, results, loading, error, inflight, exported,
                   calls, accepted, dropped>>

\* handleSubmit returning at line 27
SubmitInvalid ==
    /\ ~SubmitDisabled
    /\ Invalid(prompt, brand)
    /\ error' = Some(ValidationMsg)
    /\ last' = "submitInvalid"
    /\ UNCHANGED <<prompt, brand, results, loading, inflight, exported,
                   calls, accepted, dropped>>

\* mutant: setLoading(true) is missing
SubmitSend_noLoading ==
    /\ ~SubmitDisabled
    /\ ~Invalid(prompt, brand)
    /\ calls < MaxCalls
    /\ error' = Null
    /\ inflight' = Append(inflight, [body |-> RequestBody(prompt, brand),
                                     reply |-> <<>>])
    /\ calls' = calls + 1
    /\ accepted' = accepted + 1
    /\ last' = "submitSend"
    /\ UNCHANGED <<prompt, brand, results, loading, exported, dropped>>

\* handleSubmit from line 30 up to its suspension at the await of line 34
SubmitSend ==
    /\ ~SubmitDisabled
    /\ ~Invalid(prompt, brand)
    /\ calls < MaxCalls
    /\ loading' = TRUE
    /\ error' = Null
    /\ inflight' = Append(inflight, [body |-> RequestBody(prompt, brand),
                                     reply |-> <<>>])
    /\ calls' = calls + 1
    /\ accepted' = accepted + 1
    /\ last' = "submitSend"
    /\ UNCHANGED <<prompt, brand, results, exported, dropped>>

\* a click on the disabled submit button: no submit event, handleSubmit
\* does not run
SubmitDropped ==
    /\ SubmitDisabled
    /\ dropped < MaxDropped
    /\ dropped' = dropped + 1
    /\ last' = "submitDropped"
    /\ UNCHANGED <<prompt, brand, results, loading, error, inflight, exported,
                   calls, accepted>>

\* the backend settles the promise that handleSubmit call i awaits
BackendReplies(i, r) ==
    /\ inflight[i].reply = <<>>
    /\ inflight' = [inflight EXCEPT ![i].reply = Some(r)]
    /\ last' = "reply"
    /\ UNCHANGED <<prompt, brand, results, loading, error, exported,
                   calls, accepted, dropped>>

\* mutant: setLoading(false) is only in the try block, there is no finally
ResumeCatch_noFinally(i) ==
    /\ inflight[i].reply # <<>>
    /\ Throws(inflight[i].reply[1])
    /\ error' = Some(ConnectMsg)
    /\ inflight' = RemoveAt(inflight, i)
    /\ last' = "catch"
    /\ UNCHANGED <<prompt, brand, results, loading, exported, calls, accepted,
                   dropped>>

\* handleSubmit call i resumes in catch (lines 71-73), then finally
ResumeCatch(i) ==
    /\ inflight[i].reply # <<>>
    /\ Throws(inflight[i].reply[1])
    /\ error' = Some(ConnectMsg)
    /\ loading' = FALSE
    /\ inflight' = RemoveAt(inflight, i)
    /\ last' = "catch"
    /\ UNCHANGED <<prompt, brand, results, exported, calls, accepted, dropped>>

\* handleSubmit call i resumes and returns at line 47, then finally
ResumeError(i) ==
    /\ inflight[i].reply # <<>>
    /\ ~Throws(inflight[i].reply[1])
    /\ HasError(inflight[i].reply[1].data)
    /\ error' = inflight[i].reply[1].data.error
    /\ loading' = FALSE
    /\ inflight' = RemoveAt(inflight, i)
    /\ last' = "error"
    /\ UNCHANGED <<prompt, brand, results, exported, calls, accepted, dropped>>

\* handleSubmit call i resumes and runs lines 51-70, then finally
ResumeResult(i) ==
    /\ inflight[i].reply # <<>>
    /\ ~Throws(inflight[i].reply[1])
    /\ ~HasError(inflight[i].reply[1].data)
    /\ LET data == inflight[i].reply[1].data
       IN  /\ results' = AppendResult(results, NewResult(data))
           /\ error' = IF ShowsError(data) THEN ErrorShown(data) ELSE error
           /\ prompt' = ClearedForm(prompt, brand).prompt
           /\ brand' = ClearedForm(prompt, brand).brand
    /\ loading' = FALSE
    /\ inflight' = RemoveAt(inflight, i)
    /\ last' = "result"
    /\ UNCHANGED <<exported, calls, accepted, dropped>>

-----------------------------------------------------------------------------
(* downloadCSV, lines 79-108 *)

\* the Download CSV button is rendered when results.length > 0 (line 146)
DownloadVisible == Len(results) > 0

RECURSIVE Join(_, _)
\* Array.prototype.join on an array of texts
Join(parts, sep) ==
    IF parts = <<>> THEN <<>>
    ELSE IF Len(parts) = 1 THEN parts[1]
    ELSE parts[1] \o sep \o Join(Tail(parts), sep)

RECURSIVE EscapeQuotes(_)
\* s.replace(/"/g, '""')
EscapeQuotes(s) ==
    IF s = <<>> THEN <<>>
    ELSE (IF Head(s) = "\"" THEN <<"\"", "\"">> ELSE <<Head(s)>>)
         \o EscapeQuotes(Tail(s))

\* `"${...}"`
Quoted(s) == <<"\"">> \o EscapeQuotes(s) \o <<"\"">>

Digit(d) == <<"0", "1", "2", "3", "4", "5", "6", "7", "8", "9">>[d + 1]

RECURSIVE NatToString(_)
NatToString(n) ==
    IF n < 10 THEN <<Digit(n)>>
    ELSE NatToString(n \div 10) \o <<Digit(n % 10)>>

\* mutant: the export renders the position as the table does (line 168)
NumberToString_dash(n) == IF n > 0 THEN NatToString(n) ELSE <<"-">>

\* Number.prototype.toString on an integer
NumberToString(n) == IF n < 0 THEN <<"-">> \o NatToString(-n) ELSE NatToString(n)

Headers ==
    << <<"P", "r", "o", "m", "p", "t">>,
       <<"B", "r", "a", "n", "d">>,
       <<"M", "e", "n", "t", "i", "o", "n", "e", "d">>,
       <<"P", "o", "s", "i", "t", "i", "o", "n">> >>

\* result.mentioned ? 'Yes' : 'No'
MentionedText(m) == IF m = Some(TRUE) THEN <<"Y", "e", "s">> ELSE <<"N", "o">>

\* the callback of results.map raises a TypeError: .replace or .toString
\* of undefined
RowThrows(result) ==
    \/ result.prompt = Undefined
    \/ result.brand = Undefined
    \/ result.position = Undefined

\* the callback of results.map, lines 89-95
Row(result) ==
    Join(<< Quoted(result.prompt[1]),
            Quoted(result.brand[1]),
            MentionedText(result.mentioned),
            NumberToString(result.position[1]) >>, <<",">>)

\* [headers.join(','), ...rows].join('\n')
CsvContent(log) ==
    Join(<<Join(Headers, <<",">>)>> \o [i \in 1..Len(log) |-> Row(log[i])],
         <<"\n">>)

\* mutant: the table is emptied once the file has been handed over
DownloadCSV_clearsLog ==
    /\ DownloadVisible
    /\ exported' =
         IF Len(results) = 0 THEN <<"alert">>
         ELSE IF \E i \in 1..Len(results) : RowThrows(results[i])
              THEN <<"TypeError">>
              ELSE <<"file", CsvContent(results)>>
    /\ results' = <<>>
    /\ last' = "downloadCSV"
    /\ UNCHANGED <<prompt, brand, loading, error, inflight,
                   calls, accepted, dropped>>

\* mutant: the test of lines 80-83 is missing
NoResults_never(log) == FALSE

\* results.length === 0
NoResults(log) == Len(log) = 0

\* downloadCSV: the notice, the TypeError, or the file handed to the browser
DownloadCSVCall ==
    /\ exported' =
         IF NoResults(results) THEN <<"alert">>
         ELSE IF \E i \in 1..Len(results) : RowThrows(results[i])
              THEN <<"TypeError">>
              ELSE <<"file", CsvContent(results)>>
    /\ last' = "downloadCSV"
    /\ UNCHANGED <<prompt, brand, results, loading, error, inflight,
                   calls, accepted, dropped>>

\* a click on the Download CSV button
DownloadCSV ==
    /\ DownloadVisible
    /\ DownloadCSVCall

-----------------------------------------------------------------------------

Next ==
    \/ \E t \in PromptTexts : UpdatePrompt(t)
    \/ \E t \in BrandTexts : UpdateBrand(t)
    \/ SubmitInvalid
    \/ SubmitSend
    \/ SubmitDropped
    \/ \E i \in 1..Len(inflight) :
          \E r \in Replies(inflight[i].body) : BackendReplies(i, r)
    \/ \E i \in 1..Len(inflight) : ResumeCatch(i)
    \/ \E i \in 1..Len(inflight) : ResumeError(i)
    \/ \E i \in 1..Len(inflight) : ResumeResult(i)
    \/ DownloadCSV

Spec == Init /\ [][Next]_vars

\* the backend settles every request, and the event loop resumes every
\* handleSubmit call whose awaited promise has settled
Fairness ==
    /\ WF_vars(\E i \in 1..Len(inflight) :
                  \E r \in Replies(inflight[i].body) : BackendReplies(i, r))
    /\ WF_vars(\E i \in 1..Len(inflight) :
                  ResumeCatch(i) \/ ResumeError(i) \/ ResumeResult(i))

FairSpec == Spec /\ Fairness

-----------------------------------------------------------------------------
(* downloadCSV as a function of the log: it is applied to every log of at  *)
(* most MaxLogLen records that handleSubmit can build, the empty log       *)
(* included                                                                *)

MaxLogLen == 2

\* the payloads that pass line 25
RequestBodies ==
    { RequestBody(p, b) : p \in {q \in PromptTexts : ~Invalid(q, <<"x">>)},
                          b \in {c \in BrandTexts : ~Invalid(<<"x">>, c)} }

\* the records that lines 51-61 append for them
Records ==
    UNION { { NewResult(r.data) :
                r \in {x \in Replies(req) : ~Throws(x) /\ ~HasError(x.data)} } :
            req \in RequestBodies }

Logs == UNION { [1..n -> Records] : n \in 0..MaxLogLen }

ExportInit ==
    /\ prompt \in PromptTexts
    /\ brand \in BrandTexts
    /\ results \in Logs
    /\ loading = FALSE
    /\ error \in {Null, Some(ValidationMsg), Some(ConnectMsg)}
    /\ inflight = <<>>
    /\ exported = <<>>
    /\ calls = 0
    /\ accepted = 0
    /\ dropped = 0
    /\ last = "init"

ExportNext == DownloadCSVCall

ExportSpec == ExportInit /\ [][ExportNext]_vars

-----------------------------------------------------------------------------
(* Vocabulary of the properties *)

IsPrefix(s, t) == Len(s) <= Len(t) /\ SubSeq(t, 1, Len(s)) = s

\* the step resumes the one suspended handleSubmit call with its reply
Resolves ==
    /\ Len(inflight) = 1
    /\ inflight[1].reply # <<>>
    /\ inflight' = <<>>

TheReply == inflight[1].reply[1]

\* the error field is absent or empty
NoErrorField(data) == data.error = Undefined \/ data.error = Some("")

\* the four outcome classes of a reply
IsTransportFailure(r) == r.kind \in {"reject", "badjson"}

IsBackendError(r) == r.kind = "object" /\ ~NoErrorField(r.data)

IsMentionError(r) ==
    /\ r.kind = "object"
    /\ NoErrorField(r.data)
    /\ r.data.raw = Some("API_ERROR")

IsSuccess(r) ==
    /\ r.kind = "object"
    /\ NoErrorField(r.data)
    /\ r.data.raw # Some("API_ERROR")

\* the trimmed text is empty: every character is white space
IsBlank(s) == \A i \in 1..Len(s) : s[i] \in {" ", "\t", "\n"}

\* the step is a run of handleSubmit from its first line
SubmitRuns == last' \in {"submitInvalid", "submitSend"}

LastResult(log) == log[Len(log)]

-----------------------------------------------------------------------------
(* C1: when a sent submission resolves, a Success and a MentionError reply *)
(* each lengthen the result log by exactly one record, and a BackendError  *)
(* reply and a TransportFailure leave its length unchanged.                *)
C1_LogLengthByOutcome ==
    [][Resolves =>
         /\ (IsSuccess(TheReply) \/ IsMentionError(TheReply))
               => Len(results') = Len(results) + 1
         /\ (IsBackendError(TheReply) \/ IsTransportFailure(TheReply))
               => Len(results') = Len(results)]_vars

\* two submissions have resolved: one appended a record, the other was a
\* BackendError and appended none
C1_Witness ==
    /\ last = "error"
    /\ calls = 2
    /\ inflight = <<>>
    /\ Len(results) = 1
    /\ error = Some("rate limited")

(* C2: the result log is append-only: in every step the log before the     *)
(* step is a prefix of the log after it.                                   *)
C2_AppendOnly == [][IsPrefix(results, results')]_vars

\* a second, different record has been appended behind the first, after an
\* export of the one-record log
C2_Witness ==
    /\ last = "result"
    /\ Len(results) = 2
    /\ results[1] # results[2]
    /\ exported # <<>>

(* C3: at most one backend request is outstanding in every reachable       *)
(* state, and a submit attempt made while loading issues no request,       *)
(* appends nothing, queues nothing and sets no banner.                     *)
C3_SingleInFlight ==
    /\ [](Len(inflight) <= 1)
    /\ [][dropped' # dropped =>
            /\ loading /\ loading'
            /\ UNCHANGED <<results, inflight, error, calls, accepted,
                           prompt, brand>>]_vars

\* a submit attempt has just been dropped while the one request is outstanding
C3_Witness ==
    /\ last = "submitDropped"
    /\ dropped = 1
    /\ loading
    /\ Len(inflight) = 1

(* C4: a submit with a prompt or a brand whose trimmed text is empty issues *)
(* no backend call, leaves the result log and the draft unchanged, leaves  *)
(* loading false and sets the banner to the validation message.            *)
C4_ValidationFailure ==
    [][(SubmitRuns /\ (IsBlank(prompt) \/ IsBlank(brand))) =>
         /\ calls' = calls
         /\ inflight' = inflight
         /\ results' = results
         /\ prompt' = prompt /\ brand' = brand
         /\ ~loading /\ ~loading'
         /\ error' = Some("Please fill in both prompt and brand name")]_vars

\* a submit with a valid prompt and a brand of one space has just failed
\* validation
C4_Witness ==
    /\ last = "submitInvalid"
    /\ prompt = <<" ", "a">>
    /\ brand = <<" ">>
    /\ error = Some("Please fill in both prompt and brand name")
    /\ calls = 0

(* C5: a submit from idle with a prompt and a brand of non-empty trimmed   *)
(* text issues exactly one request, whose payload is the draft as typed;   *)
(* a request is issued by no other step, so the number of backend calls    *)
(* equals the number of accepted submits.                                  *)
C5_OneCallPerAcceptedSubmit ==
    /\ [][(SubmitRuns /\ ~loading /\ ~IsBlank(prompt) /\ ~IsBlank(brand)) =>
            /\ calls' = calls + 1
            /\ inflight' = <<[body |-> [prompt |-> prompt, brand |-> brand],
                              reply |-> <<>>]>>]_vars
    /\ [][(calls' # calls \/ Len(inflight') > Len(inflight)) =>
            last' = "submitSend"]_vars
    /\ [](calls = accepted)

\* the second accepted submit has just sent the draft with its leading space
C5_Witness ==
    /\ last = "submitSend"
    /\ calls = 2
    /\ Len(inflight) = 1
    /\ inflight[1].body = [prompt |-> <<" ", "a">>, brand |-> <<"A", "\"", " ">>]

(* C6 as stated: after a resolution that is a Success, a MentionError or a *)
(* BackendError, prompt and brand are both the empty string.               *)
C6_DraftClearedUnlessTransport ==
    [][(Resolves /\ (\/ IsSuccess(TheReply)
                     \/ IsMentionError(TheReply)
                     \/ IsBackendError(TheReply))) =>
         (prompt' = <<>> /\ brand' = <<>>)]_vars

(* C6 amended: after a Success or a MentionError resolution prompt and     *)
(* brand are both the empty string; a BackendError resolution leaves       *)
(* prompt and brand as they were.                                          *)
C6_DraftClearedOnRecord ==
    [][Resolves =>
         /\ (IsSuccess(TheReply) \/ IsMentionError(TheReply))
               => (prompt' = <<>> /\ brand' = <<>>)
         /\ IsBackendError(TheReply)
               => (prompt' = prompt /\ brand' = brand)]_vars

\* a BackendError has just resolved and the draft that was sent is still there
C6_Witness ==
    /\ last = "error"
    /\ error = Some("rate limited")
    /\ prompt = <<"b">>
    /\ brand = <<"A", "\"", " ">>

(* C7: a TransportFailure resolution (fetch rejects, or the body does not  *)
(* parse) leaves the result log unchanged, sets the banner to the          *)
(* connectivity message and leaves prompt and brand as they were.          *)
C7_TransportFailure ==
    [][(Resolves /\ IsTransportFailure(TheReply)) =>
         /\ results' = results
         /\ error' = Some(ConnectMsg)
         /\ prompt' = prompt /\ brand' = brand]_vars

\* an unparsable body has just been handled after one record was logged
C7_Witness ==
    /\ last = "catch"
    /\ error = Some(ConnectMsg)
    /\ Len(results) = 1
    /\ prompt = <<" ", "a">>
    /\ brand = <<"A", "\"", " ">>

(* C8: every record of the log carries an error exactly when it was        *)
(* appended by a MentionError resolution; a record appended by a Success   *)
(* carries none.                                                           *)
C8_ErrorIffMentionError ==
    /\ [](\A i \in 1..Len(results) :
             results[i].error # Undefined <=> results[i].raw = Some("API_ERROR"))
    /\ [][(Resolves /\ Len(results') = Len(results) + 1) =>
            /\ LastResult(results').error # Undefined <=> IsMentionError(TheReply)
            /\ IsSuccess(TheReply) => LastResult(results').error = Undefined]_vars

\* the log holds a Success record followed by a MentionError record
C8_Witness ==
    /\ Len(results) = 2
    /\ results[1].error = Undefined
    /\ results[1].raw # Some("API_ERROR")
    /\ results[2].error # Undefined

(* C9: a MentionError resolution appends exactly one record, whose error   *)
(* is the fallback message, and sets the banner to that same message.      *)
C9_MentionErrorFallback ==
    [][(Resolves /\ IsMentionError(TheReply)) =>
         /\ Len(results') = Len(results) + 1
         /\ IsPrefix(results, results')
         /\ LastResult(results').error =
               Some("API Error: Service temporarily unavailable")
         /\ error' = LastResult(results').error]_vars

\* a MentionError has just resolved
C9_Witness ==
    /\ last = "result"
    /\ Len(results) = 1
    /\ results[1].raw = Some("API_ERROR")
    /\ error = Some("API Error: Service temporarily unavailable")
    /\ error = results[1].error

(* C10: a reply with both a non-empty error field and raw = "API_ERROR"    *)
(* appends no record and sets the banner to the reply's error field, not   *)
(* to the fallback message.                                                *)
C10_ErrorFieldFirst ==
    [][(Resolves /\ IsBackendError(TheReply)
                 /\ TheReply.data.raw = Some("API_ERROR")) =>
         /\ results' = results
         /\ error' = TheReply.data.error
         /\ error' # Some("API Error: Service temporarily unavailable")]_vars

\* such a reply has just resolved
C10_Witness ==
    /\ last = "error"
    /\ error = Some("upstream failed")
    /\ results = <<>>
    /\ calls = 1

(* C11: whenever a submission is in flight (loading is true) and the       *)
(* backend call settles, loading eventually becomes false, for every       *)
(* outcome class; in the idle state a submit is accepted again.            *)
C11_InFlightReturnsToIdle ==
    /\ loading ~> ~loading
    /\ \A k \in {"reject", "badjson", "null", "object"} :
          (loading /\ Len(inflight) = 1 /\ inflight[1].reply # <<>>
                   /\ inflight[1].reply[1].kind = k) ~> ~loading
    /\ [](~loading => ~SubmitDisabled)
    /\ []((~loading /\ calls < MaxCalls) => ENABLED (SubmitInvalid \/ SubmitSend))

\* the second submission has returned to idle after a transport failure
C11_Witness ==
    /\ last = "catch"
    /\ calls = 2
    /\ ~loading
    /\ inflight = <<>>

(* C12: the banner is empty from the step in which a validated submit      *)
(* starts until that submission resolves, and it is still empty right      *)
(* after a Success resolution.                                             *)
C12_BannerEmptyInFlight ==
    /\ [][last' = "submitSend" => error' = Null]_vars
    /\ [](Len(inflight) > 0 => error = Null)
    /\ [][(Resolves /\ IsSuccess(TheReply)) => error' = Null]_vars

\* a Success has just resolved as the second submission, after a first one
\* that was a MentionError, and the banner is empty
C12_Witness ==
    /\ last = "result"
    /\ Len(results) = 2
    /\ results[1].error # Undefined
    /\ results[2].error = Undefined
    /\ error = Null

(* C13: a set banner becomes empty only in the step in which a submit      *)
(* passes validation and starts a request; every other change of the       *)
(* banner replaces it by the message of that step: the validation message, *)
(* the reply's error field, the fallback message or the connectivity       *)
(* message.                                                                *)
C13_BannerLifecycle ==
    /\ [][(error # Null /\ error' = Null) => last' = "submitSend"]_vars
    /\ [][error' # error =>
            \/ last' = "submitSend" /\ error' = Null
            \/ last' = "submitInvalid"
                 /\ error' = Some("Please fill in both prompt and brand name")
            \/ Resolves /\ IsBackendError(TheReply)
                 /\ error' = TheReply.data.error
            \/ Resolves /\ IsMentionError(TheReply)
                 /\ error' = Some("API Error: Service temporarily unavailable")
            \/ Resolves /\ TheReply.kind # "object"
                 /\ error' = Some(ConnectMsg)]_vars

\* the first submission was a MentionError, which set the banner; the second
\* submit has just passed validation and the banner is empty
C13_Witness ==
    /\ last = "submitSend"
    /\ calls = 2
    /\ Len(results) = 1
    /\ results[1].error # Undefined
    /\ error = Null

-----------------------------------------------------------------------------
(* The CSV document the export is to produce *)

RECURSIVE Flatten(_)
Flatten(ss) == IF ss = <<>> THEN <<>> ELSE Head(ss) \o Flatten(Tail(ss))

HeaderRow ==
    << "P", "r", "o", "m", "p", "t", ",", "B", "r", "a", "n", "d", ",", "M",
       "e", "n", "t", "i", "o", "n", "e", "d", ",", "P", "o", "s", "i", "t",
       "i", "o", "n" >>

\* s in double quotes, every double quote of s doubled
ExpectedField(s) ==
    <<"\"">>
    \o Flatten([i \in 1..Len(s) |->
                  IF s[i] = "\"" THEN <<"\"", "\"">> ELSE <<s[i]>>])
    \o <<"\"">>

\* the decimal numeral of the positions the backend reports
Decimal(n) ==
    CASE n = 3 -> <<"3">>
      [] n = 0 -> <<"0">>
      [] n = -1 -> <<"-", "1">>

ExpectedRow(r) ==
    ExpectedField(r.prompt[1]) \o <<",">>
    \o ExpectedField(r.brand[1]) \o <<",">>
    \o (IF r.mentioned = Some(TRUE) THEN <<"Y", "e", "s">> ELSE <<"N", "o">>)
    \o <<",">> \o Decimal(r.position[1])

ExpectedCsv(log) ==
    HeaderRow \o Flatten([i \in 1..Len(log) |-> <<"\n">> \o ExpectedRow(log[i])])

\* every record carries a text prompt, a text brand and an integer position
WellFormed(log) ==
    \A i \in 1..Len(log) :
        /\ log[i].prompt # Undefined
        /\ log[i].brand # Undefined
        /\ log[i].position # Undefined

(* C14: the CSV document exported from a non-empty log is the header row   *)
(* Prompt,Brand,Mentioned,Position followed by one row per record in log   *)
(* order, rows joined by newline; prompt and brand are in double quotes    *)
(* with inner double quotes doubled, Mentioned is Yes or No, and Position  *)
(* is the integer in decimal, 0 and negative values included.              *)
C14_CsvDocument ==
    /\ [][(last' = "downloadCSV" /\ exported'[1] = "file") =>
            exported'[2] = ExpectedCsv(results)]_vars
    /\ [][(last' = "downloadCSV" /\ Len(results) > 0 /\ WellFormed(results)) =>
            exported' = <<"file", ExpectedCsv(results)>>]_vars

\* the log of one record (prompt b, brand A", not mentioned, position -1)
\* has been exported
C14_Witness ==
    /\ last = "downloadCSV"
    /\ Len(results) = 1
    /\ results[1].brand = Some(<<"A", "\"">>)
    /\ results[1].position = Some(-1)
    /\ exported = <<"file",
         << "P", "r", "o", "m", "p", "t", ",", "B", "r", "a", "n", "d", ",", "M",
            "e", "n", "t", "i", "o", "n", "e", "d", ",", "P", "o", "s", "i", "t",
            "i", "o", "n", "\n", "\"", "b", "\"", ",", "\"", "A", "\"", "\"",
            "\"", ",", "N", "o", ",", "-", "1" >> >>

(* C15: an export leaves the result log, the draft, the banner and the     *)
(* in-flight flag unchanged, and an export repeated on the unchanged log   *)
(* yields the same output: right after an export, a further export         *)
(* changes nothing.                                                        *)
C15_ExportReadOnlyIdempotent ==
    /\ [][last' = "downloadCSV" =>
            UNCHANGED <<results, prompt, brand, error, loading, inflight>>]_vars
    /\ [](last = "downloadCSV" => ~ENABLED <<DownloadCSV>>_vars)

\* a two-record log has been exported while the banner is set
C15_Witness ==
    /\ last = "downloadCSV"
    /\ exported[1] = "file"
    /\ Len(results) = 2
    /\ error # Null
    /\ prompt # <<>>

(* C16: downloadCSV on an empty log shows the notice, produces no file and *)
(* changes no state; a file is produced only from a log of at least one    *)
(* record.                                                                 *)
C16_EmptyLogExport ==
    /\ [][(last' = "downloadCSV" /\ Len(results) = 0) =>
            /\ exported' = <<"alert">>
            /\ UNCHANGED <<results, prompt, brand, error, loading, inflight>>]_vars
    /\ []((exported # <<>> /\ exported[1] = "file") => Len(results) >= 1)

\* downloadCSV has been applied to the empty log while the banner was set
C16_Witness ==
    /\ last = "downloadCSV"
    /\ results = <<>>
    /\ exported = <<"alert">>
    /\ error = Some(ConnectMsg)

(* C17: every appended record takes prompt, brand, mentioned, position and *)
(* raw from the body of the reply, not from the request or the draft.      *)
C17_RecordFromResponse ==
    [][(Resolves /\ Len(results') = Len(results) + 1) =>
         /\ LastResult(results').prompt = TheReply.data.prompt
         /\ LastResult(results').brand = TheReply.data.brand
         /\ LastResult(results').mentioned = TheReply.data.mentioned
         /\ LastResult(results').position = TheReply.data.position
         /\ LastResult(results').raw = TheReply.data.raw]_vars

\* the record holds the prompt a and the brand A" that the backend echoed,
\* neither of which can be typed: " a" and "A\" " were sent
C17_Witness ==
    /\ last = "result"
    /\ Len(results) = 1
    /\ results[1].prompt = Some(<<"a">>)
    /\ results[1].brand = Some(<<"A", "\"">>)

(* C18 as stated: updatePrompt and updateBrand are permitted in every      *)
(* state, also while a submission is in flight, and each changes only its  *)
(* own draft field.                                                        *)
C18_EditsAlwaysPermitted ==
    /\ [](/\ ENABLED (\E t \in PromptTexts : UpdatePrompt(t))
          /\ ENABLED (\E t \in BrandTexts : UpdateBrand(t)))
    /\ [][last' = "updatePrompt" =>
            UNCHANGED <<brand, results, error, loading, inflight>>]_vars
    /\ [][last' = "updateBrand" =>
            UNCHANGED <<prompt, results, error, loading, inflight>>]_vars

(* C18 amended: updatePrompt and updateBrand are permitted exactly in the  *)
(* states where no submission is in flight (loading false), and each       *)
(* changes only its own draft field.                                       *)
C18_EditsWhenIdle ==
    /\ [](~loading <=> ENABLED (\E t \in PromptTexts : UpdatePrompt(t)))
    /\ [](~loading <=> ENABLED (\E t \in BrandTexts : UpdateBrand(t)))
    /\ [][last' = "updatePrompt" =>
            UNCHANGED <<brand, results, error, loading, inflight>>]_vars
    /\ [][last' = "updateBrand" =>
            UNCHANGED <<prompt, results, error, loading, inflight>>]_vars

\* the brand has just been edited while the banner is set and the log holds
\* a record
C18_Witness ==
    /\ last = "updateBrand"
    /\ brand = <<" ">>
    /\ prompt = <<"b">>
    /\ error # Null
    /\ Len(results) = 1
    /\ ~loading

(* C19: loading is true exactly when one backend request has been issued   *)
(* and not yet handled, and there is never more than one.                  *)
C19_LoadingIffOutstanding ==
    /\ Len(inflight) <= 1
    /\ loading <=> Len(inflight) = 1

\* the second request is outstanding and its reply has arrived
C19_Witness ==
    /\ loading
    /\ calls = 2
    /\ Len(inflight) = 1
    /\ inflight[1].reply # <<>>

(* C20: the CSV export completes on every reachable non-empty log: every   *)
(* record of the log has a text prompt, a text brand and an integer        *)
(* position, whatever JSON object the backend replied with, and            *)
(* downloadCSV never raises a TypeError.                                   *)
C20_ExportNeverFails ==
    /\ WellFormed(results)
    /\ exported # <<"TypeError">>

====
